---------------------------- MODULE Spec2Model ----------------------------
(***************************************************************************)
(* Model of cloudshell/snmp/snmp_autoload.py: class AutoLoad.               *)
(*                                                                         *)
(* An AutoLoad object reads three SNMP tables of one device                *)
(* (entPhysicalTable, ifTable, entAliasMappingTable) and derives the       *)
(* containment hierarchy of the physical entities and the mapping from     *)
(* physical ports to interfaces.  The device's tables are the input; the   *)
(* object's state is its two memoised tables.  Every public method is one  *)
(* action; the methods' recursion is modelled by RECURSIVE operators that  *)
(* carry the depth of the interpreter's call stack.                        *)
(*                                                                         *)
(* Python class tags such as "'port'" are written "port".  A raised        *)
(* exception is the field err of a result ("" when the call returns).      *)
(***************************************************************************)
EXTENDS Integers, Sequences, FiniteSets, TLC

\* Number of rows of the largest entPhysicalTable explored.
MaxEnt == 4
\* Number of rows of the largest ifTable explored.
MaxIf == 2
\* Number of method calls made on one AutoLoad object.
MaxCalls == 2

VARIABLES
    dev,                \* the device behind self.snmp: [ent, ifs, alias]
    _entPhysicalTable,  \* self._entPhysicalTable: [set, val]; set = FALSE is None
    _ifTable,           \* self._ifTable: [set, val]
    walks,              \* number of self.snmp.walk calls per table name
    calls,              \* number of method calls made so far
    nGetMapping,        \* number of get_mapping() calls among them
    ret                 \* outcome of the last method call

vars == <<dev, _entPhysicalTable, _ifTable, walks, calls, nGetMapping, ret>>

-----------------------------------------------------------------------------
(* The class attribute autolad_parents. *)
autolad_parents ==
    [port        |-> {"module", "chassis"},
     powerSupply |-> {"chassis"},
     module      |-> {"chassis"},
     container   |-> {"chassis"},
     chassis     |-> {}]

\* Values of entPhysicalClass a device reports; "other" stands for every
\* class that is not a key of autolad_parents (fan, sensor, backplane, ...).
Classes == {"chassis", "module", "container", "port", "powerSupply", "other"}

\* Depth of the call stack at which the interpreter raises RuntimeError
\* ("maximum recursion depth exceeded"); scaled down with the table size so
\* that no acyclic climb over MaxEnt rows can reach it.
RecursionLimit == 2 * MaxEnt + 4

Raise(e, d) == [err |-> e, val |-> 0, chain |-> <<>>, depth |-> d]

-----------------------------------------------------------------------------
(* get_parent: lines 123-133.  i is the index ('suffix') of the entity.    *)
RECURSIVE get_parent(_, _, _)
get_parent(tbl, i, depth) ==
    IF depth > RecursionLimit THEN Raise("RuntimeError", depth)
    ELSE LET c == tbl[i].containedIn IN
         IF c \notin DOMAIN tbl THEN Raise("KeyError", depth)
         ELSE IF tbl[i].class \notin DOMAIN autolad_parents
              THEN Raise("KeyError", depth)
         ELSE IF tbl[c].class \in autolad_parents[tbl[i].class]
              THEN [err |-> "", val |-> c, chain |-> <<>>, depth |-> depth]
         ELSE get_parent(tbl, c, depth + 1)

\* get_parents with the chassis returned before it is appended to the list.
RECURSIVE get_parents_no_append(_, _, _, _)
get_parents_no_append(tbl, i, _parents, depth) ==
    LET parents_l == Append(_parents, i) IN
    IF depth > RecursionLimit THEN Raise("RuntimeError", depth)
    ELSE IF tbl[i].class = "chassis"
         THEN [err |-> "", val |-> 0, chain |-> _parents, depth |-> depth]
    ELSE LET r == get_parent(tbl, i, depth + 1) IN
         IF r.err # "" THEN r
         ELSE get_parents_no_append(tbl, r.val, parents_l, depth + 1)

(* get_parents: lines 110-121.  The chain is the list of indices.          *)
RECURSIVE get_parents(_, _, _, _)
get_parents(tbl, i, _parents, depth) ==
    LET parents_l == Append(_parents, i) IN
    IF depth > RecursionLimit THEN Raise("RuntimeError", depth)
    ELSE IF tbl[i].class = "chassis"
         THEN [err |-> "", val |-> 0, chain |-> parents_l, depth |-> depth]
    ELSE LET r == get_parent(tbl, i, depth + 1) IN
         IF r.err # "" THEN r
         ELSE get_parents(tbl, r.val, parents_l, depth + 1)


-----------------------------------------------------------------------------
(* QualiMibTable.filter_by_column('Class', cls): the indices of the rows   *)
(* of that class, in table order.                                          *)
filter_by_column(tbl, cls) ==
    SelectSeq([i \in 1..Len(tbl) |-> i], LAMBDA i : tbl[i].class = cls)

\* dict(ports.items() + pss.items()).values(), line 73: the ports and the
\* power supplies keyed by index; the dict of small int keys iterates in
\* ascending key order.
hierarchy_leaves(tbl) ==
    SelectSeq([i \in 1..Len(tbl) |-> i],
              LAMBDA i : tbl[i].class \in {"port", "powerSupply"})

Range(s) == {s[j] : j \in DOMAIN s}

\* Lines 78-80: create the parent's list when it is missing or empty, then
\* append the child.
record_edge(h, parent_index, index) ==
    IF parent_index \in DOMAIN h /\ h[parent_index] # <<>>
    THEN [h EXCEPT ![parent_index] = Append(@, index)]
    ELSE [x \in DOMAIN h \cup {parent_index} |->
            IF x = parent_index THEN <<index>> ELSE h[x]]

\* Lines 75-80: for p in range(len(parents)-1, 0, -1), 0-based; here p is
\* the 1-based position of the parent.
RECURSIVE record_chain(_, _, _)
record_chain(h, parents, p) ==
    IF p < 2 THEN h
    ELSE record_chain(record_edge(h, parents[p], parents[p - 1]), parents, p - 1)

\* Lines 73-80: the loop over the leaves; the first exception ends the call.
RECURSIVE hierarchy_loop(_, _, _, _)
hierarchy_loop(tbl, leaves, k, h) ==
    IF k > Len(leaves) THEN [err |-> "", hierarchy |-> h, depth |-> 0]
    ELSE LET r == get_parents(tbl, leaves[k], <<>>, 2) IN
         IF r.err # "" THEN [err |-> r.err, hierarchy |-> <<>>, depth |-> r.depth]
         ELSE hierarchy_loop(tbl, leaves, k + 1,
                             record_chain(h, r.chain, Len(r.chain)))

(* get_hierarchy: lines 61-83.  The returned lists are list(set(...)):     *)
(* their order is arbitrary, so the value is the set of children.          *)
get_hierarchy(tbl) ==
    LET r == hierarchy_loop(tbl, hierarchy_leaves(tbl), 1, <<>>) IN
    IF r.err # "" THEN r
    ELSE [err |-> "", depth |-> 0,
          hierarchy |-> [parent \in DOMAIN r.hierarchy |-> Range(r.hierarchy[parent])]]

-----------------------------------------------------------------------------
(* Strings are sequences of one-character strings.                         *)
Digit == {"0", "1", "2", "3", "4", "5", "6", "7", "8", "9"}

\* re.findall('\d+', s), line 145: the maximal runs of digits, left to right.
RECURSIVE findall_digits(_, _, _, _)
findall_digits(s, j, cur, acc) ==
    IF j > Len(s) THEN (IF cur = <<>> THEN acc ELSE Append(acc, cur))
    ELSE IF s[j] \in Digit THEN findall_digits(s, j + 1, Append(cur, s[j]), acc)
    ELSE findall_digits(s, j + 1, <<>>, IF cur = <<>> THEN acc ELSE Append(acc, cur))

\* re.search('.*' + module_index + '/' + port_index, descr), lines 146-148:
\* the pattern is unanchored, so it matches when descr contains the text
\* module_index/port_index anywhere ('.' matches every character used here).
re_search(module_index, port_index, descr) ==
    LET pat == module_index \o <<"/">> \o port_index IN
    \E k \in 0..(Len(descr) - Len(pat)) : SubSeq(descr, k + 1, k + Len(pat)) = pat

\* mapping[key] = val on an OrderedDict, kept as the sequence of its items:
\* a new key is appended, a known key keeps its place and takes the value.
od_set(od, key, val) ==
    IF \E j \in DOMAIN od : od[j].key = key
    THEN [j \in DOMAIN od |-> IF od[j].key = key THEN [key |-> key, val |-> val] ELSE od[j]]
    ELSE Append(od, [key |-> key, val |-> val])

\* Lines 147-150: every interface is visited (the trailing continue does not
\* leave the loop), each match assigns mapping[port] again.
RECURSIVE interface_loop(_, _, _, _, _, _)
interface_loop(mapping, port, module_index, port_index, ifs, j) ==
    IF j > Len(ifs) THEN mapping
    ELSE interface_loop(
            IF re_search(module_index, port_index, ifs[j].ifDescr)
            THEN od_set(mapping, port, ifs[j].suffix) ELSE mapping,
            port, module_index, port_index, ifs, j + 1)

\* Lines 143-150: the loop over the ports.  usedIf tells whether self.ifTable
\* was read (line 147 is reached only after line 145 unpacked two tokens).
RECURSIVE descr_loop(_, _, _, _, _, _)
descr_loop(tbl, ifs, ports, k, mapping, usedIf) ==
    IF k > Len(ports) THEN [err |-> "", mapping |-> mapping, usedIf |-> usedIf]
    ELSE LET tokens == findall_digits(tbl[ports[k]].descr, 1, <<>>, <<>>) IN
         IF Len(tokens) # 2
         THEN [err |-> "ValueError", mapping |-> <<>>, usedIf |-> usedIf]
         ELSE descr_loop(tbl, ifs, ports, k + 1,
                         interface_loop(mapping, ports[k], tokens[1], tokens[2], ifs, 1),
                         TRUE)

(* _descr_based_mapping: lines 135-151. *)
_descr_based_mapping(tbl, ifs) ==
    descr_loop(tbl, ifs, filter_by_column(tbl, "port"), 1, <<>>, FALSE)

\* identifier.split('.')[-1]: the text after the last '.'.
RECURSIVE last_component(_, _, _)
last_component(s, j, cur) ==
    IF j > Len(s) THEN cur
    ELSE IF s[j] = "." THEN last_component(s, j + 1, <<>>)
    ELSE last_component(s, j + 1, Append(cur, s[j]))

DigitValue(c) == CHOOSE n \in 0..9 : <<"0", "1", "2", "3", "4", "5", "6", "7", "8", "9">>[n + 1] = c

\* int(text) of a non-empty run of digits.
RECURSIVE to_int(_, _, _)
to_int(s, j, acc) ==
    IF j > Len(s) THEN acc ELSE to_int(s, j + 1, 10 * acc + DigitValue(s[j]))

\* Lines 98-100: the loop over the ports of the alias branch.
RECURSIVE alias_loop(_, _, _, _)
alias_loop(alias, ports, k, mapping) ==
    IF k > Len(ports) THEN [err |-> "", mapping |-> mapping, usedIf |-> FALSE]
    ELSE IF ports[k] \notin DOMAIN alias
         THEN [err |-> "KeyError", mapping |-> <<>>, usedIf |-> FALSE]
    ELSE LET text == last_component(alias[ports[k]], 1, <<>>) IN
         IF text = <<>> \/ \E j \in DOMAIN text : text[j] \notin Digit
         THEN [err |-> "ValueError", mapping |-> <<>>, usedIf |-> FALSE]
         ELSE alias_loop(alias, ports, k + 1,
                         od_set(mapping, ports[k], to_int(text, 1, 0)))

(* get_mapping: lines 85-104.  alias is the table walked at line 96. *)
get_mapping(tbl, ifs, alias) ==
    IF DOMAIN alias # {}
    THEN alias_loop(alias, filter_by_column(tbl, "port"), 1, <<>>)
    ELSE _descr_based_mapping(tbl, ifs)

-----------------------------------------------------------------------------
(* The devices explored.                                                   *)

\* Descriptions of physical ports (entPhysicalDescr): two numeric tokens,
\* and none, one and three of them.
PortDescrs ==
    { <<"1", "/", "2">>, <<"2", "/", "1">>, <<"1", "2">>, <<"G">>,
      <<"1", "/", "2", "/", "1">> }

\* Descriptions of interfaces (ifDescr).
IfDescrs ==
    { <<"G", "1", "/", "2">>, <<"G", "1", "/", "2", "0">>,
      <<"G", "2", "/", "1">>, <<"G">> }

\* Values of entAliasMappingIdentifier.
Identifiers == { <<"1", ".", "4", "8">>, <<"2", ".", "7">> }

DefaultDescr == <<"1", "/", "2">>

Row(cls, cont, descr) == [class |-> cls, containedIn |-> cont, descr |-> descr]

\* ifTable rows in walk order; the row at position j has suffix j.
IfRows(descrs) == [j \in DOMAIN descrs |-> [suffix |-> j, ifDescr |-> descrs[j]]]

DefaultIfs == IfRows(<<<<"G", "1", "/", "2">>>>)

\* An entity table of n rows: row 1 is a chassis at the root (containedIn 0,
\* which is no index); row i > 1 has class f[i][1] and is contained in
\* f[i][2]: any row, itself, or the missing row 0.
TopologyTable(n, f) ==
    [i \in 1..n |-> IF i = 1 THEN Row("chassis", 0, DefaultDescr)
                    ELSE Row(f[i][1], f[i][2], DefaultDescr)]

\* A device whose topology varies.
IsTopologyDevice(d) ==
    \E n \in 1..MaxEnt : \E f \in [2..n -> Classes \X (0..n)] :
        d = [ent |-> TopologyTable(n, f), ifs |-> DefaultIfs, alias |-> <<>>]

\* A chassis with MaxEnt - 1 ports in it.
PortTable(descrs) ==
    [i \in 1..MaxEnt |-> IF i = 1 THEN Row("chassis", 0, <<"G">>)
                         ELSE Row("port", 1, descrs[i])]

\* A device without alias table, whose descriptions vary.
IsDescrDevice(d) ==
    \E descrs \in [2..MaxEnt -> PortDescrs] :
    \E n \in 0..MaxIf : \E i \in [1..n -> IfDescrs] :
        d = [ent |-> PortTable(descrs), ifs |-> IfRows(i), alias |-> <<>>]

\* A device whose alias table has an entry for some of the ports.
IsAliasDevice(d) ==
    \E S \in SUBSET (2..MaxEnt) : \E a \in [S -> Identifiers] :
        d = [ent |-> PortTable([i \in 2..MaxEnt |-> DefaultDescr]),
             ifs |-> DefaultIfs, alias |-> a]

\* A device that reports no physical entity and no interface.
EmptyDevice == [ent |-> <<>>, ifs |-> <<>>, alias |-> <<>>]

IsDevice(d) ==
    \/ IsTopologyDevice(d)
    \/ IsDescrDevice(d)
    \/ IsAliasDevice(d)
    \/ d = EmptyDevice

-----------------------------------------------------------------------------
(* The memoised table properties, lines 46-57.                             *)

None == [set |-> FALSE, val |-> <<>>]

\* The test written "if not self._entPhysicalTable": an empty table counts
\* as not read yet.
is_falsy(cache) == ~cache.set \/ cache.val = <<>>

\* "if self._entPhysicalTable is None" / "if self._ifTable is None".
is_None(cache) == ~cache.set

\* The value the property returns: the cache, or the table walked now.
property_value(cache, walked) == IF is_None(cache) THEN walked ELSE cache.val

\* The cache after the property was read.
property_cache(cache, walked) ==
    IF is_None(cache) THEN [set |-> TRUE, val |-> walked] ELSE cache

\* self.snmp.walk calls made by reading the property.
property_walks(cache) == IF is_None(cache) THEN 1 ELSE 0

NoRet ==
    [op |-> "", arg |-> 0, err |-> "", val |-> 0, chain |-> <<>>,
     hierarchy |-> <<>>, mapping |-> <<>>, depth |-> 0]

TableNames == {"entPhysicalTable", "ifTable", "entAliasMappingTable"}

\* __init__, lines 22-38: nothing is read yet.
Init ==
    /\ IsDevice(dev)
    /\ _entPhysicalTable = None
    /\ _ifTable = None
    /\ walks = [n \in TableNames |-> 0]
    /\ calls = 0
    /\ nGetMapping = 0
    /\ ret = NoRet

\* The caller makes at most MaxCalls calls on one object.
Called(m) ==
    /\ calls < MaxCalls
    /\ calls' = calls + 1
    /\ nGetMapping' = nGetMapping + (IF m = "get_mapping" THEN 1 ELSE 0)

\* The object after a method has read self.entPhysicalTable.
ReadEntPhysicalTable ==
    /\ _entPhysicalTable' = property_cache(_entPhysicalTable, dev.ent)
    /\ walks' = [walks EXCEPT
                   !["entPhysicalTable"] = @ + property_walks(_entPhysicalTable)]

\* get_hierarchy(), lines 61-83.
GetHierarchy ==
    /\ Called("get_hierarchy")
    /\ LET tbl == property_value(_entPhysicalTable, dev.ent)
           r == get_hierarchy(tbl)
       IN  ret' = [NoRet EXCEPT !.op = "get_hierarchy", !.err = r.err,
                                !.hierarchy = r.hierarchy, !.depth = r.depth]
    /\ ReadEntPhysicalTable
    /\ UNCHANGED <<dev, _ifTable>>

\* get_parents(self.entPhysicalTable[i]), lines 110-121.
GetParents(i) ==
    /\ Called("get_parents")
    /\ LET tbl == property_value(_entPhysicalTable, dev.ent)
           r == get_parents(tbl, i, <<>>, 1)
       IN  ret' = [NoRet EXCEPT !.op = "get_parents", !.arg = i, !.err = r.err,
                                !.chain = r.chain, !.depth = r.depth]
    /\ ReadEntPhysicalTable
    /\ UNCHANGED <<dev, _ifTable>>

\* get_parent(self.entPhysicalTable[i]), lines 123-133.
GetParent(i) ==
    /\ Called("get_parent")
    /\ LET tbl == property_value(_entPhysicalTable, dev.ent)
           r == get_parent(tbl, i, 1)
       IN  ret' = [NoRet EXCEPT !.op = "get_parent", !.arg = i, !.err = r.err,
                                !.val = r.val, !.depth = r.depth]
    /\ ReadEntPhysicalTable
    /\ UNCHANGED <<dev, _ifTable>>

\* get_mapping(), lines 85-104: the alias table is walked on every call.
GetMapping ==
    /\ Called("get_mapping")
    /\ LET tbl == property_value(_entPhysicalTable, dev.ent)
           ifs == property_value(_ifTable, dev.ifs)
           r == get_mapping(tbl, ifs, dev.alias)
       IN  /\ ret' = [NoRet EXCEPT !.op = "get_mapping", !.err = r.err,
                                   !.mapping = r.mapping]
           /\ _ifTable' = IF r.usedIf THEN property_cache(_ifTable, dev.ifs)
                          ELSE _ifTable
           /\ walks' = [walks EXCEPT
                !["entAliasMappingTable"] = @ + 1,
                !["entPhysicalTable"] = @ + property_walks(_entPhysicalTable),
                !["ifTable"] = @ + (IF r.usedIf THEN property_walks(_ifTable) ELSE 0)]
    /\ _entPhysicalTable' = property_cache(_entPhysicalTable, dev.ent)
    /\ UNCHANGED dev

Next ==
    \/ GetHierarchy
    \/ GetMapping
    \/ \E i \in DOMAIN dev.ent : GetParents(i)
    \/ \E i \in DOMAIN dev.ent : GetParent(i)

Spec == Init /\ [][Next]_vars

-----------------------------------------------------------------------------
(* Specifications over parts of the input space.                           *)

\* The entity at the end of k containedIn references from row i; a value
\* that is no index of the table once a reference dangles.
RECURSIVE Up(_, _, _)
Up(tbl, i, k) ==
    IF k = 0 \/ i \notin DOMAIN tbl THEN i ELSE Up(tbl, tbl[i].containedIn, k - 1)

ClassAt(tbl, i) == IF i \in DOMAIN tbl THEN tbl[i].class ELSE "missing"

IsLeaf(tbl, i) == tbl[i].class \in {"port", "powerSupply"}

\* The table has one chassis and the containedIn references of every other
\* row lead to it.
SingleChassis(tbl) ==
    /\ Cardinality({i \in DOMAIN tbl : tbl[i].class = "chassis"}) = 1
    /\ \A i \in DOMAIN tbl : \E k \in 0..Len(tbl) : ClassAt(tbl, Up(tbl, i, k)) = "chassis"

\* A well-formed single-chassis table: SingleChassis, and every row on the
\* containedIn path of a port or power supply has a class the Parent-Class
\* Rule Table knows.
WellFormed(tbl) ==
    /\ SingleChassis(tbl)
    /\ \A i \in DOMAIN tbl : IsLeaf(tbl, i) =>
          \A k \in 0..Len(tbl) :
              Up(tbl, i, k) \in DOMAIN tbl =>
                  tbl[Up(tbl, i, k)].class \in DOMAIN autolad_parents

\* The topology devices with a well-formed table: their rows above the first
\* are no chassis and are contained in a row of the table.
InitWellFormed ==
    /\ \E n \in 1..MaxEnt : \E f \in [2..n -> (Classes \ {"chassis"}) \X (1..n)] :
          dev = [ent |-> TopologyTable(n, f), ifs |-> DefaultIfs, alias |-> <<>>]
    /\ WellFormed(dev.ent)
    /\ _entPhysicalTable = None
    /\ _ifTable = None
    /\ walks = [n \in TableNames |-> 0]
    /\ calls = 0
    /\ nGetMapping = 0
    /\ ret = NoRet

NextResolver == \E i \in DOMAIN dev.ent : GetParents(i)

\* get_parents on the well-formed single-chassis tables.
SpecResolver == InitWellFormed /\ [][NextResolver]_vars

\* A device whose ports' descriptions vary, with the default interfaces.
IsPortDevice(d) ==
    \E descrs \in [2..MaxEnt -> PortDescrs] :
        d = [ent |-> PortTable(descrs), ifs |-> DefaultIfs, alias |-> <<>>]

InitCache ==
    /\ \/ IsPortDevice(dev)
       \/ IsAliasDevice(dev)
       \/ dev = EmptyDevice
    /\ _entPhysicalTable = None
    /\ _ifTable = None
    /\ walks = [n \in TableNames |-> 0]
    /\ calls = 0
    /\ nGetMapping = 0
    /\ ret = NoRet

\* Every method on the devices that differ in what get_mapping() reads.
SpecCache == InitCache /\ [][Next]_vars

-----------------------------------------------------------------------------
(* Properties.  T is the device's entity table, which is also the table    *)
(* every method read.                                                      *)

T == dev.ent

Rules(cls) == IF cls \in DOMAIN autolad_parents THEN autolad_parents[cls] ELSE {}

\* Every row on the containedIn path of row i, i included, has a class that
\* is a key of the Parent-Class Rule Table.
KnownClasses(tbl, i) ==
    \A k \in 0..Len(tbl) :
        Up(tbl, i, k) \in DOMAIN tbl => tbl[Up(tbl, i, k)].class \in DOMAIN autolad_parents

\* Row a, k > 0 references above row i, is the nearest row on the path whose
\* class is accepted for the class of i.
NearestAccepted(tbl, i, k) ==
    /\ \A j \in 1..k : Up(tbl, i, j) \in DOMAIN tbl
    /\ tbl[Up(tbl, i, k)].class \in Rules(tbl[i].class)
    /\ \A j \in 1..(k - 1) : tbl[Up(tbl, i, j)].class \notin Rules(tbl[i].class)

\* C1: get_parent(e) returns the nearest row on e's containedIn path whose
\* class is accepted for e's own class (stated for the single-chassis tables
\* in which every class on the path is a key of the rule table).
C1_NearestParentOfOwnClass ==
    (ret.op = "get_parent" /\ T[ret.arg].class # "chassis"
        /\ SingleChassis(T) /\ KnownClasses(T, ret.arg))
    => \A k \in 1..Len(T) :
          NearestAccepted(T, ret.arg, k) => ret.err = "" /\ ret.val = Up(T, ret.arg, k)

\* The containedIn path of row i stays in the table and passes no class of
\* `stop`: within Len(tbl) references it has entered a cycle.  Every class
\* on it is a key of the rule table.
CycleFrom(tbl, i, stop) ==
    /\ KnownClasses(tbl, i)
    /\ \A k \in 1..Len(tbl) :
          Up(tbl, i, k) \in DOMAIN tbl /\ tbl[Up(tbl, i, k)].class \notin stop

\* C2: when the climb from a port or power supply enters a cycle of
\* containedIn references, resolution ends in a topology error after at most
\* as many hops as the table has rows.
C2_CycleIsTopologyError ==
    /\ (ret.op = "get_parent" /\ IsLeaf(T, ret.arg)
            /\ CycleFrom(T, ret.arg, {"module", "chassis"}))
       => ret.err = "TopologyError" /\ ret.depth <= Len(T) + 1
    /\ (ret.op = "get_parents" /\ IsLeaf(T, ret.arg) /\ CycleFrom(T, ret.arg, {"chassis"}))
       => ret.err = "TopologyError" /\ ret.depth <= Len(T) + 1
    /\ (ret.op = "get_hierarchy"
            /\ \E i \in DOMAIN T : IsLeaf(T, i) /\ CycleFrom(T, i, {"chassis"}))
       => ret.err = "TopologyError"

\* The containedIn path of row i leaves the table before it passes a class of
\* `stop`.
DanglingFrom(tbl, i, stop) ==
    \E k \in 1..Len(tbl) :
        /\ Up(tbl, i, k) \notin DOMAIN tbl
        /\ \A j \in 1..(k - 1) : tbl[Up(tbl, i, j)].class \notin stop

\* C3: when the climb reaches a containedIn value that is no index of the
\* table, get_parent and get_hierarchy end in a topology error, an outcome
\* of its own kind.
C3_DanglingIsTopologyError ==
    /\ (ret.op = "get_parent" /\ IsLeaf(T, ret.arg)
            /\ DanglingFrom(T, ret.arg, {"module", "chassis"}))
       => ret.err = "TopologyError"
    /\ (ret.op = "get_hierarchy"
            /\ \E i \in DOMAIN T : IsLeaf(T, i) /\ DanglingFrom(T, i, {"chassis"}))
       => ret.err = "TopologyError"

\* C4 as stated: every table name is walked at most once on one object.
C4_EveryTableWalkedOnce ==
    \A n \in TableNames : walks[n] <= 1

\* C4 amended: entPhysicalTable and ifTable are walked at most once, exactly
\* when their cache is filled, an empty table included; entAliasMappingTable
\* is walked by every get_mapping() call.
C4_MemoisedTablesWalkedOnce ==
    /\ walks["entPhysicalTable"] = (IF _entPhysicalTable.set THEN 1 ELSE 0)
    /\ walks["ifTable"] = (IF _ifTable.set THEN 1 ELSE 0)
    /\ calls > 0 => walks["entPhysicalTable"] = 1
    /\ walks["entAliasMappingTable"] = nGetMapping

\* Two calls have read an empty entPhysicalTable, both walked the alias table.
C4_Witness ==
    /\ calls = 2 /\ nGetMapping = 2
    /\ T = <<>>
    /\ walks["entPhysicalTable"] = 1 /\ walks["entAliasMappingTable"] = 2

\* The children recorded under some key of the hierarchy.
Children(h) == UNION {h[parent] : parent \in DOMAIN h}

\* C5: on a table whose rows all lead to the one chassis, get_hierarchy()
\* returns, its keys are indices of the table and every port and power supply
\* is a child of some key.
C5_HierarchyCompleteOnSingleChassis ==
    (ret.op = "get_hierarchy" /\ SingleChassis(T))
    => /\ ret.err = ""
       /\ DOMAIN ret.hierarchy \subseteq DOMAIN T
       /\ \A i \in DOMAIN T : IsLeaf(T, i) => i \in Children(ret.hierarchy)

Items(od) == {<<od[j].key, od[j].val>> : j \in DOMAIN od}

Keys(od) == {od[j].key : j \in DOMAIN od}

Ports(tbl) == {i \in DOMAIN tbl : tbl[i].class = "port"}

\* C6: with a non-empty alias table, get_mapping() returns also when a port
\* has no alias entry: the result holds exactly the ports with an entry, each
\* mapped to the trailing number of its identifier.
C6_MissingAliasEntryIsOmitted ==
    (ret.op = "get_mapping" /\ DOMAIN dev.alias # {} /\ ~(Ports(T) \subseteq DOMAIN dev.alias))
    => /\ ret.err = ""
       /\ Items(ret.mapping) =
            { <<i, to_int(last_component(dev.alias[i], 1, <<>>), 1, 0)>> :
                i \in Ports(T) \cap DOMAIN dev.alias }

Tokens(tbl, i) == findall_digits(tbl[i].descr, 1, <<>>, <<>>)

EndsWith(descr, pat) ==
    Len(descr) >= Len(pat) /\ SubSeq(descr, Len(descr) - Len(pat) + 1, Len(descr)) = pat

\* The interfaces whose description ends with the two tokens of port i.
Matching(tbl, ifs, i) ==
    { j \in DOMAIN ifs :
        EndsWith(ifs[j].ifDescr, Tokens(tbl, i)[1] \o <<"/">> \o Tokens(tbl, i)[2]) }

Min(S) == CHOOSE x \in S : \A y \in S : x <= y

\* C7: without alias table, a port whose description has not exactly two
\* numeric tokens is skipped: get_mapping() returns and holds every port with
\* two tokens and a matching interface.
C7_MalformedDescriptionIsSkipped ==
    (ret.op = "get_mapping" /\ DOMAIN dev.alias = {}
        /\ \E i \in Ports(T) : Len(Tokens(T, i)) # 2)
    => /\ ret.err = ""
       /\ \A i \in Ports(T) :
            (Len(Tokens(T, i)) = 2 /\ Matching(T, dev.ifs, i) # {}) => i \in Keys(ret.mapping)

\* C8: descriptor-based mapping records for a port the first interface, in
\* table order, whose description ends with module/port, and nothing for a
\* port without such an interface.
C8_FirstInterfaceEndingWithTokens ==
    (ret.op = "get_mapping" /\ DOMAIN dev.alias = {} /\ ret.err = "")
    => \A i \in Ports(T) :
          IF Matching(T, dev.ifs, i) # {}
          THEN <<i, dev.ifs[Min(Matching(T, dev.ifs, i))].suffix>> \in Items(ret.mapping)
          ELSE i \notin Keys(ret.mapping)

\* C9: every edge of a returned hierarchy joins two rows of the table, the
\* child a port, power supply or module, the parent of a class the rule table
\* accepts for the child's class.
C9_EdgesFollowRuleTable ==
    (ret.op = "get_hierarchy" /\ ret.err = "")
    => \A parent \in DOMAIN ret.hierarchy : \A child \in ret.hierarchy[parent] :
          /\ parent \in DOMAIN T /\ child \in DOMAIN T
          /\ T[child].class \in {"port", "powerSupply", "module"}
          /\ T[parent].class \in Rules(T[child].class)

=============================================================================
